---- MODULE Spec2Model ----
(***************************************************************************)
(* hyper's error module (src/error.rs): the Error container, its Kind      *)
(* taxonomy, the named factories, the conversion layer into Parse, the     *)
(* cause-chain walk (find_source) and what is built on it (is_timeout,     *)
(* h2_reason), and the Display / Debug renderings.                         *)
(*                                                                         *)
(* A value is a record tagged by its concrete type:                        *)
(*   [type |-> "Error", kind, cause]       a hyper Error (ErrorImpl)       *)
(*   [type |-> "TimedOut"]                 the sentinel                    *)
(*   [type |-> "h2::Error", reason, io, source]                            *)
(*   [type |-> "io::Error", source]                                        *)
(*   [type |-> "Other", source]            any user error type             *)
(*   [type |-> "None"]                     Option::None                    *)
(* A Kind is the path of its variant names: Kind::Parse(Parse::Header(     *)
(* Header::Token)) is <<"Parse", "Header", "Token">>.                      *)
(***************************************************************************)
EXTENDS Naturals, Sequences, FiniteSets, TLC

VARIABLES features, err, made, arg, raw

vars == <<features, err, made, arg, raw>>

\* Links an externally built cause chain may hold.
MaxExt == 2
\* Links the cause chain of an Error may hold.
MaxChain == 3

Features == {"http1", "http2", "server", "client", "ffi"}

\* The builds checked: the default one, with no feature on, and the one with
\* every feature on. A build in between compiles a subset of the variants and
\* factories of the latter, each unchanged.
Builds == {{}, Features}

None == [type |-> "None"]

---------------------------------------------------------------------------
(* The taxonomy under a feature configuration F.                           *)

Header(F) ==
    {<<"Token">>}
    \cup (IF "http1" \in F
          THEN {<<"ContentLengthInvalid">>, <<"TransferEncodingUnexpected">>}
          ELSE {})
    \cup (IF {"http1", "server"} \subseteq F
          THEN {<<"TransferEncodingInvalid">>} ELSE {})

Parse(F) ==
    {<<"Method">>, <<"Version">>, <<"Uri">>, <<"UriTooLong">>,
     <<"TooLarge">>, <<"Status">>, <<"Internal">>}
    \cup (IF "http1" \in F THEN {<<"VersionH2">>} ELSE {})
    \cup {<<"Header">> \o h : h \in Header(F)}

User(F) ==
    {<<"BodyWriteAborted">>, <<"NoUpgrade">>}
    \cup (IF F \cap {"http1", "http2"} # {}
          THEN {<<"Body">>, <<"Service">>} ELSE {})
    \cup (IF F \cap {"http1", "http2"} # {} /\ "server" \in F
          THEN {<<"UnexpectedHeader">>} ELSE {})
    \cup (IF {"http1", "server"} \subseteq F
          THEN {<<"UnsupportedStatusCode">>} ELSE {})
    \cup (IF "http1" \in F THEN {<<"ManualUpgrade">>} ELSE {})
    \cup (IF "client" \in F THEN {<<"DispatchGone">>} ELSE {})
    \cup (IF "ffi" \in F THEN {<<"AbortedByCallback">>} ELSE {})

Kind(F) ==
    {<<"Parse">> \o p : p \in Parse(F)}
    \cup {<<"User">> \o u : u \in User(F)}
    \cup {<<"IncompleteMessage">>, <<"Canceled">>, <<"ChannelClosed">>}
    \cup (IF "http1" \in F
          THEN {<<"UnexpectedMessage">>, <<"Shutdown">>} ELSE {})
    \cup (IF F \cap {"http1", "http2"} # {}
          THEN {<<"Io">>, <<"Body">>, <<"BodyWrite">>} ELSE {})
    \cup (IF {"http1", "server"} \subseteq F
          THEN {<<"HeaderTimeout">>} ELSE {})
    \cup (IF "http2" \in F THEN {<<"Http2">>} ELSE {})

TimedOut == [type |-> "TimedOut"]

---------------------------------------------------------------------------
(* The collaborators' error types, as far as error.rs uses them.           *)

INTERNAL_ERROR == "INTERNAL_ERROR"
ENHANCE_YOUR_CALM == "ENHANCE_YOUR_CALM"
HTTP_1_1_REQUIRED == "HTTP_1_1_REQUIRED"

Reason == {INTERNAL_ERROR, ENHANCE_YOUR_CALM, HTTP_1_1_REQUIRED}

\* Option<Reason>: None, or the reason itself.
NoReason == "None"

IoError(src) == [type |-> "io::Error", source |-> src]

\* An h2::Error: the reason it carries (if any), the io::Error it holds when
\* it is an I/O failure (if any), and what its own source() exposes.
H2Error(r, io, src) ==
    [type |-> "h2::Error", reason |-> r, io |-> io, source |-> src]

OtherError(src) == [type |-> "Other", source |-> src]

h2_reason_of(h2_err) == h2_err.reason

is_io(h2_err) == h2_err.io # None

into_io(h2_err) == h2_err.io

---------------------------------------------------------------------------
(* Error: construction, source, the chain walk.                            *)

new(kind) == [type |-> "Error", kind |-> kind, cause |-> None]

with(self, cause) == [self EXCEPT !.cause = cause]

\* An Error that exposes no source.
source_ErrorHidesCause(e) ==
    CASE e.type \in {"Error", "TimedOut"} -> None
      [] OTHER -> e.source

\* <Error as StdError>::source, and the source() of every other link.
source(e) ==
    CASE e.type = "Error" -> e.cause
      [] e.type = "TimedOut" -> None
      [] OTHER -> e.source

\* err.downcast_ref::<T>()
downcast_ref(e, T) == IF e.type = T THEN e ELSE None

\* The walk looking at the immediate cause alone.
find_source_loop_NoWalk(cause, T) ==
    IF cause = None THEN None ELSE downcast_ref(cause, T)

RECURSIVE find_source_loop(_, _)
find_source_loop(cause, T) ==
    IF cause = None THEN None
    ELSE IF downcast_ref(cause, T) # None THEN downcast_ref(cause, T)
    ELSE find_source_loop(source(cause), T)

\* The walk starting at the Error itself.
find_source_FromSelf(self, T) == find_source_loop(self, T)

find_source(self, T) == find_source_loop(source(self), T)

is_parse(self) == self.kind[1] = "Parse"

\* is_parse_too_large forgetting Parse::UriTooLong.
is_parse_too_large_TooLargeOnly(self) == self.kind = <<"Parse", "TooLarge">>

is_parse_too_large(self) ==
    self.kind = <<"Parse", "TooLarge">> \/ self.kind = <<"Parse", "UriTooLong">>

is_parse_status(self) == self.kind = <<"Parse", "Status">>

is_user(self) == self.kind[1] = "User"

is_canceled(self) == self.kind = <<"Canceled">>

is_closed(self) == self.kind = <<"ChannelClosed">>

is_incomplete_message(self) == self.kind = <<"IncompleteMessage">>

is_body_write_aborted(self) == self.kind = <<"User", "BodyWriteAborted">>

is_timeout(self) == find_source(self, "TimedOut") # None

\* h2_reason answering the default whatever the chain holds.
h2_reason_AlwaysDefault(self) == INTERNAL_ERROR

\* h2_reason with another default.
h2_reason_OtherDefault(self) ==
    LET found == find_source(self, "h2::Error")
        reason == IF found = None THEN NoReason ELSE h2_reason_of(found)
    IN  IF reason = NoReason THEN ENHANCE_YOUR_CALM ELSE reason

h2_reason(self) ==
    LET found == find_source(self, "h2::Error")
        reason == IF found = None THEN NoReason ELSE h2_reason_of(found)
    IN  IF reason = NoReason THEN INTERNAL_ERROR ELSE reason

---------------------------------------------------------------------------
(* The named factories.                                                    *)

new_canceled == new(<<"Canceled">>)

new_incomplete == new(<<"IncompleteMessage">>)

new_too_large == new(<<"Parse", "TooLarge">>)

new_version_h2 == new(<<"Parse", "VersionH2">>)

new_unexpected_message == new(<<"UnexpectedMessage">>)

new_io(cause) == with(new(<<"Io">>), cause)

new_closed == new(<<"ChannelClosed">>)

new_body(cause) == with(new(<<"Body">>), cause)

new_body_write(cause) == with(new(<<"BodyWrite">>), cause)

new_body_write_aborted == new(<<"User", "BodyWriteAborted">>)

new_user(user) == new(<<"User">> \o user)

new_user_header == new_user(<<"UnexpectedHeader">>)

new_header_timeout == new(<<"HeaderTimeout">>)

new_user_unsupported_status_code == new_user(<<"UnsupportedStatusCode">>)

new_user_no_upgrade == new_user(<<"NoUpgrade">>)

new_user_manual_upgrade == new_user(<<"ManualUpgrade">>)

new_user_service(cause) == with(new_user(<<"Service">>), cause)

new_user_body(cause) == with(new_user(<<"Body">>), cause)

new_shutdown(cause) == with(new(<<"Shutdown">>), cause)

new_user_aborted_by_callback == new_user(<<"AbortedByCallback">>)

new_user_dispatch_gone == new(<<"User", "DispatchGone">>)

\* Option::expect on into_io(): a None there is a panic.
Panic == [type |-> "panic"]

\* new_h2 wrapping every h2::Error as Http2, the I/O ones included.
new_h2_AlwaysHttp2(cause) == with(new(<<"Http2">>), cause)

new_h2(cause) ==
    IF is_io(cause)
    THEN IF into_io(cause) = None THEN Panic ELSE new_io(into_io(cause))
    ELSE with(new(<<"Http2">>), cause)

\* impl From<Parse> for Error
Error_from_Parse(parse) == new(<<"Parse">> \o parse)

---------------------------------------------------------------------------
(* The conversion layer into Parse.                                        *)

HttparseError ==
    {"HeaderName", "HeaderValue", "NewLine", "Status", "Token",
     "TooManyHeaders", "Version"}

\* The table with TooManyHeaders filed under the header entry.
Parse_from_httparse_TooManyAsHeader(e) ==
    CASE e \in {"HeaderName", "HeaderValue", "NewLine", "Token", "TooManyHeaders"} ->
             <<"Header", "Token">>
      [] e = "Status" -> <<"Status">>
      [] e = "Version" -> <<"Version">>

Parse_from_httparse(e) ==
    CASE e \in {"HeaderName", "HeaderValue", "NewLine", "Token"} ->
             <<"Header", "Token">>
      [] e = "Status" -> <<"Status">>
      [] e = "TooManyHeaders" -> <<"TooLarge">>
      [] e = "Version" -> <<"Version">>

Parse_from_InvalidMethod == <<"Method">>

Parse_from_InvalidStatusCode == <<"Status">>

Parse_from_InvalidUri == <<"Uri">>

Parse_from_InvalidUriParts == <<"Uri">>

---------------------------------------------------------------------------
(* Display and Debug.                                                      *)

description(self) ==
    LET k == self.kind IN
    CASE k = <<"Parse", "Method">> -> "invalid HTTP method parsed"
      [] k = <<"Parse", "Version">> -> "invalid HTTP version parsed"
      [] k = <<"Parse", "VersionH2">> ->
             "invalid HTTP version parsed (found HTTP2 preface)"
      [] k = <<"Parse", "Uri">> -> "invalid URI"
      [] k = <<"Parse", "UriTooLong">> -> "URI too long"
      [] k = <<"Parse", "Header", "Token">> -> "invalid HTTP header parsed"
      [] k = <<"Parse", "Header", "ContentLengthInvalid">> ->
             "invalid content-length parsed"
      [] k = <<"Parse", "Header", "TransferEncodingInvalid">> ->
             "invalid transfer-encoding parsed"
      [] k = <<"Parse", "Header", "TransferEncodingUnexpected">> ->
             "unexpected transfer-encoding parsed"
      [] k = <<"Parse", "TooLarge">> -> "message head is too large"
      [] k = <<"Parse", "Status">> -> "invalid HTTP status-code parsed"
      [] k = <<"Parse", "Internal">> ->
             "internal error inside Hyper and/or its dependencies, please report"
      [] k = <<"IncompleteMessage">> ->
             "connection closed before message completed"
      [] k = <<"UnexpectedMessage">> ->
             "received unexpected message from connection"
      [] k = <<"ChannelClosed">> -> "channel closed"
      [] k = <<"Canceled">> -> "operation was canceled"
      [] k = <<"HeaderTimeout">> -> "read header from client timeout"
      [] k = <<"Body">> -> "error reading a body from connection"
      [] k = <<"BodyWrite">> -> "error writing a body to connection"
      [] k = <<"Shutdown">> -> "error shutting down connection"
      [] k = <<"Http2">> -> "http2 error"
      [] k = <<"Io">> -> "connection error"
      [] k = <<"User", "Body">> -> "error from user's Body stream"
      [] k = <<"User", "BodyWriteAborted">> -> "user body write aborted"
      [] k = <<"User", "Service">> -> "error from user's Service"
      [] k = <<"User", "UnexpectedHeader">> -> "user sent unexpected header"
      [] k = <<"User", "UnsupportedStatusCode">> ->
             "response has 1xx status code, not supported by server"
      [] k = <<"User", "NoUpgrade">> -> "no upgrade available"
      [] k = <<"User", "ManualUpgrade">> ->
             "upgrade expected but low level API in use"
      [] k = <<"User", "DispatchGone">> -> "dispatch task is gone"
      [] k = <<"User", "AbortedByCallback">> ->
             "operation aborted by an application callback"

\* Display appending the text of the cause.
Display_WithCause(self) ==
    IF self.cause = None THEN description(self)
    ELSE description(self) \o ": " \o self.cause.type

\* <Error as fmt::Display>::fmt: the text written to the formatter.
Display(self) == description(self)

\* #[derive(Debug)] on Kind, Parse, Header, User: Variant or Variant(inner).
RECURSIVE Debug_Kind(_)
Debug_Kind(k) ==
    IF Len(k) = 1 THEN k[1]
    ELSE k[1] \o "(" \o Debug_Kind(Tail(k)) \o ")"

\* DebugTuple::finish: name(field, field).
finish(t) ==
    IF Len(t.fields) = 0 THEN t.name
    ELSE IF Len(t.fields) = 1 THEN t.name \o "(" \o t.fields[1] \o ")"
    ELSE t.name \o "(" \o t.fields[1] \o ", " \o t.fields[2] \o ")"

\* Debug leaving the cause out.
Debug_KindOnly(self) ==
    [name |-> "hyper::Error", fields |-> <<Debug_Kind(self.kind)>>]

\* <Error as fmt::Debug>::fmt: the DebugTuple it builds, and the Debug text
\* of a cause (a nested Error's is its own tuple; TimedOut derives Debug; a
\* collaborator's text is its own business and is kept opaque).
RECURSIVE Debug(_)
Debug(self) ==
    LET cause_text ==
            CASE self.cause.type = "Error" -> finish(Debug(self.cause))
              [] self.cause.type = "TimedOut" -> "TimedOut"
              [] OTHER -> self.cause.type \o " { .. }"
        f0 == [name |-> "hyper::Error", fields |-> <<>>]
        f1 == [f0 EXCEPT !.fields = Append(@, Debug_Kind(self.kind))]
    IN  IF self.cause # None
        THEN [f1 EXCEPT !.fields = Append(@, cause_text)]
        ELSE f1

---------------------------------------------------------------------------
(* The causes the callers hand to the factories.                           *)

\* The value x holds as its cause: the cause field of an Error, the source
\* field of a collaborator's error, nothing for a TimedOut.
Held(x) ==
    CASE x.type = "Error" -> x.cause
      [] x.type \in {"h2::Error", "io::Error", "Other"} -> x.source
      [] OTHER -> None

\* The links of the chain below x, nearest first, read off the structure.
RECURSIVE Chain(_)
Chain(x) == IF Held(x) = None THEN <<>> ELSE <<Held(x)>> \o Chain(Held(x))

ChainLen(x) == Len(Chain(x))

\* Cause chains of at most n links built outside this module: a TimedOut
\* (which has no source), or an h2::Error / user error over any such chain.
RECURSIVE ExtCauses(_)
ExtCauses(n) ==
    IF n = 0 THEN {}
    ELSE LET below == {None} \cup ExtCauses(n - 1) IN
         {TimedOut}
         \cup {H2Error(r, None, s) : r \in {NoReason, ENHANCE_YOUR_CALM, HTTP_1_1_REQUIRED},
                                     s \in below}
         \cup {OtherError(s) : s \in below}

\* The io::Errors handed to new_io and new_shutdown: a plain one, or one
\* whose source() exposes a TimedOut.
IoCauses == {IoError(None), IoError(TimedOut)}

\* The h2::Errors handed to new_h2: one carrying a reason or none, or one
\* that is an I/O failure (it carries no reason and holds the io::Error).
H2Causes ==
    {H2Error(r, None, None) : r \in {NoReason} \cup Reason}
    \cup {H2Error(NoReason, io, None) : io \in IoCauses}

\* What a caller can box into a Cause: a chain of its own, or the Error at
\* hand (re-wrapping); the chain of the Error built stays within MaxChain.
ExtChains == ExtCauses(MaxExt)

Causes ==
    {c \in ExtChains : ChainLen(c) < MaxChain}
    \cup (IF err # None /\ ChainLen(err) < MaxChain THEN {err} ELSE {})

NoArg == None

---------------------------------------------------------------------------
(* The state machine: features is the build's configuration, err the Error *)
(* built last, made the factory that built it, arg what it was given, raw  *)
(* the raw failure a conversion started from.                              *)

Init ==
    /\ features \in Builds
    /\ err = None
    /\ made = "none"
    /\ arg = NoArg
    /\ raw = "none"

Built(name, e, a) ==
    /\ err' = e
    /\ made' = name
    /\ arg' = a
    /\ raw' = "none"
    /\ UNCHANGED features

Proto == features \cap {"http1", "http2"} # {}

NewCanceled == Built("new_canceled", new_canceled, NoArg)

NewIncomplete ==
    "http1" \in features /\ Built("new_incomplete", new_incomplete, NoArg)

NewTooLarge ==
    "http1" \in features /\ Built("new_too_large", new_too_large, NoArg)

NewVersionH2 ==
    "http1" \in features /\ Built("new_version_h2", new_version_h2, NoArg)

NewUnexpectedMessage ==
    /\ "http1" \in features
    /\ Built("new_unexpected_message", new_unexpected_message, NoArg)

NewIo == Proto /\ \E c \in IoCauses : Built("new_io", new_io(c), c)

NewClosed == Built("new_closed", new_closed, NoArg)

NewBody == Proto /\ \E c \in Causes : Built("new_body", new_body(c), c)

NewBodyWrite ==
    Proto /\ \E c \in Causes : Built("new_body_write", new_body_write(c), c)

NewBodyWriteAborted ==
    Built("new_body_write_aborted", new_body_write_aborted, NoArg)

NewUserHeader ==
    /\ Proto /\ "server" \in features
    /\ Built("new_user_header", new_user_header, NoArg)

NewHeaderTimeout ==
    /\ {"http1", "server"} \subseteq features
    /\ Built("new_header_timeout", new_header_timeout, NoArg)

NewUserUnsupportedStatusCode ==
    /\ {"http1", "server"} \subseteq features
    /\ Built("new_user_unsupported_status_code",
             new_user_unsupported_status_code, NoArg)

NewUserNoUpgrade == Built("new_user_no_upgrade", new_user_no_upgrade, NoArg)

NewUserManualUpgrade ==
    /\ "http1" \in features
    /\ Built("new_user_manual_upgrade", new_user_manual_upgrade, NoArg)

NewUserService ==
    Proto /\ \E c \in Causes : Built("new_user_service", new_user_service(c), c)

NewUserBody ==
    Proto /\ \E c \in Causes : Built("new_user_body", new_user_body(c), c)

NewShutdown ==
    "http1" \in features
    /\ \E c \in IoCauses : Built("new_shutdown", new_shutdown(c), c)

NewUserAbortedByCallback ==
    /\ "ffi" \in features
    /\ Built("new_user_aborted_by_callback", new_user_aborted_by_callback, NoArg)

NewUserDispatchGone ==
    /\ "client" \in features
    /\ Built("new_user_dispatch_gone", new_user_dispatch_gone, NoArg)

NewH2 == "http2" \in features /\ \E c \in H2Causes : Built("new_h2", new_h2(c), c)

ParseArg(p) == [type |-> "Parse", parse |-> p]

\* Error::from(parse) on a Parse the crate names directly.
FromParse ==
    \E p \in Parse(features) : Built("From<Parse>", Error_from_Parse(p), ParseArg(p))

\* Error::from(Parse::from(e)): a raw failure converted at the boundary.
Converted(r, p) ==
    /\ err' = Error_from_Parse(p)
    /\ made' = "From<Parse>"
    /\ arg' = ParseArg(p)
    /\ raw' = r
    /\ UNCHANGED features

FromHttparse ==
    \E e \in HttparseError : Converted("httparse::Error::" \o e, Parse_from_httparse(e))

FromInvalidMethod == Converted("InvalidMethod", Parse_from_InvalidMethod)

FromInvalidStatusCode == Converted("InvalidStatusCode", Parse_from_InvalidStatusCode)

FromInvalidUri == Converted("InvalidUri", Parse_from_InvalidUri)

FromInvalidUriParts == Converted("InvalidUriParts", Parse_from_InvalidUriParts)

Next ==
    \/ NewCanceled
    \/ NewIncomplete
    \/ NewTooLarge
    \/ NewVersionH2
    \/ NewUnexpectedMessage
    \/ NewIo
    \/ NewClosed
    \/ NewBody
    \/ NewBodyWrite
    \/ NewBodyWriteAborted
    \/ NewUserHeader
    \/ NewHeaderTimeout
    \/ NewUserUnsupportedStatusCode
    \/ NewUserNoUpgrade
    \/ NewUserManualUpgrade
    \/ NewUserService
    \/ NewUserBody
    \/ NewShutdown
    \/ NewUserAbortedByCallback
    \/ NewUserDispatchGone
    \/ NewH2
    \/ FromParse
    \/ FromHttparse
    \/ FromInvalidMethod
    \/ FromInvalidStatusCode
    \/ FromInvalidUri
    \/ FromInvalidUriParts

Spec == Init /\ [][Next]_vars

---------------------------------------------------------------------------
(* The claims.                                                             *)

Predicates ==
    {"is_parse", "is_parse_too_large", "is_parse_status", "is_user",
     "is_canceled", "is_closed", "is_incomplete_message",
     "is_body_write_aborted", "is_timeout"}

\* The predicates that return true on e.
TruePreds(e) ==
    {p \in Predicates :
        CASE p = "is_parse" -> is_parse(e)
          [] p = "is_parse_too_large" -> is_parse_too_large(e)
          [] p = "is_parse_status" -> is_parse_status(e)
          [] p = "is_user" -> is_user(e)
          [] p = "is_canceled" -> is_canceled(e)
          [] p = "is_closed" -> is_closed(e)
          [] p = "is_incomplete_message" -> is_incomplete_message(e)
          [] p = "is_body_write_aborted" -> is_body_write_aborted(e)
          [] p = "is_timeout" -> is_timeout(e)}

UserFactories ==
    {"new_user_header", "new_user_unsupported_status_code",
     "new_user_no_upgrade", "new_user_manual_upgrade", "new_user_service",
     "new_user_body", "new_user_aborted_by_callback", "new_user_dispatch_gone"}

\* The one predicate named after each factory, if there is one.
Matching(f) ==
    CASE f = "new_canceled" -> {"is_canceled"}
      [] f = "new_closed" -> {"is_closed"}
      [] f = "new_incomplete" -> {"is_incomplete_message"}
      [] f = "new_too_large" -> {"is_parse_too_large"}
      [] f = "new_version_h2" -> {"is_parse"}
      [] f = "From<Parse>" -> {"is_parse"}
      [] f = "new_body_write_aborted" -> {"is_body_write_aborted"}
      [] f \in UserFactories -> {"is_user"}
      [] OTHER -> {}

\* Whether a TimedOut is among the links below x.
HasTimedOut(x) == \E i \in 1..Len(Chain(x)) : Chain(x)[i].type = "TimedOut"

\* C1, as stated: on the value a factory returns, the predicate matching the
\* factory is true and each of the other eight is false.
C1_OnlyMatchingPredicate ==
    made # "none" => TruePreds(err) = Matching(made)

\* The broader predicates that hold along with the matching one.
Implied(f, a) ==
    CASE f = "new_too_large" -> {"is_parse"}
      [] f = "new_body_write_aborted" -> {"is_user"}
      [] f = "From<Parse>" ->
             (IF a.parse \in {<<"TooLarge">>, <<"UriTooLong">>}
              THEN {"is_parse_too_large"} ELSE {})
             \cup (IF a.parse = <<"Status">> THEN {"is_parse_status"} ELSE {})
      [] OTHER -> {}

\* C1, amended: on the value a factory returns, the true predicates are
\* exactly the matching one, the class predicates it refines or is refined
\* to by the Parse given (is_parse with is_parse_too_large / is_parse_status,
\* is_user with is_body_write_aborted), and is_timeout when (and only when)
\* the cause placed in the Error has a TimedOut in its chain.
C1_PredicatesPerFactory ==
    made # "none" =>
        TruePreds(err) =
            Matching(made) \cup Implied(made, arg)
            \cup (IF HasTimedOut(err) THEN {"is_timeout"} ELSE {})

\* new_too_large was applied: is_parse_too_large and is_parse both hold.
C1_Witness ==
    /\ made = "new_too_large"
    /\ TruePreds(err) = {"is_parse", "is_parse_too_large"}

\* C2: is_timeout(E) is true iff a TimedOut is one of the links below E, at
\* any depth and through nested Errors; a causeless Error is never a
\* timeout; the answer is the same under every Kind.
C2_TimeoutIffTimedOutInChain ==
    made # "none" =>
        /\ is_timeout(err) <=> HasTimedOut(err)
        /\ err.cause = None => ~is_timeout(err)
        /\ \A k \in Kind(features) :
               is_timeout(with(new(k), err.cause)) = is_timeout(err)

\* A TimedOut two links below the immediate cause, which is a nested Error.
C2_Witness ==
    /\ made # "none"
    /\ Len(Chain(err)) = 3
    /\ Chain(err)[1].type = "Error"
    /\ Chain(err)[3].type = "TimedOut"
    /\ is_timeout(err)

\* The factories that take a cause.
CauseFactories ==
    {"new_body", "new_body_write", "new_user_service", "new_user_body",
     "new_io", "new_shutdown", "new_h2"}

\* C3: an Error built by a cause-accepting factory with an h2::Error of
\* reason R as its immediate cause has h2_reason R, whatever its Kind.
C3_ReasonOfImmediateCause ==
    ("http2" \in features /\ made \in CauseFactories
        /\ arg.type = "h2::Error" /\ arg.reason # NoReason)
    => (err.cause = arg /\ h2_reason(err) = arg.reason)

\* new_user_body was given an h2::Error of reason ENHANCE_YOUR_CALM.
C3_Witness ==
    /\ "http2" \in features
    /\ made = "new_user_body"
    /\ arg = H2Error(ENHANCE_YOUR_CALM, None, None)
    /\ h2_reason(err) = ENHANCE_YOUR_CALM

\* The nested Errors at the top of a chain, counted.
RECURSIVE Wraps(_)
Wraps(ch) ==
    IF ch = <<>> \/ Head(ch).type # "Error" THEN 0 ELSE 1 + Wraps(Tail(ch))

\* C4: re-wrapping keeps the reason. An Error built over an Error A has A's
\* h2_reason, and an Error whose chain is any number of nested Errors over
\* an h2::Error of reason R has h2_reason R.
C4_RewrapKeepsReason ==
    ("http2" \in features /\ made \in CauseFactories) =>
        /\ arg.type = "Error" => h2_reason(err) = h2_reason(arg)
        /\ LET ch == Chain(err)
               n == Wraps(ch)
           IN  (n >= 1 /\ n < Len(ch) /\ ch[n + 1].type = "h2::Error"
                  /\ ch[n + 1].reason # NoReason)
               => h2_reason(err) = ch[n + 1].reason

\* Two successive re-wraps of an Error over an h2::Error of reason
\* HTTP_1_1_REQUIRED.
C4_Witness ==
    /\ "http2" \in features
    /\ made = "new_user_service"
    /\ arg.type = "Error"
    /\ Len(Chain(err)) = 3
    /\ Wraps(Chain(err)) = 2
    /\ Chain(err)[3] = H2Error(HTTP_1_1_REQUIRED, None, None)
    /\ h2_reason(err) = HTTP_1_1_REQUIRED

\* C5: h2_reason answers one reason for every Error, and INTERNAL_ERROR for
\* every Error with no h2::Error anywhere in its chain, causeless ones
\* included.
C5_ReasonTotalWithDefault ==
    ("http2" \in features /\ made # "none") =>
        /\ h2_reason(err) \in Reason
        /\ (\A i \in 1..Len(Chain(err)) : Chain(err)[i].type # "h2::Error")
               => h2_reason(err) = INTERNAL_ERROR

\* An Error over a chain of two links, none an h2::Error.
C5_Witness ==
    /\ "http2" \in features
    /\ Len(Chain(err)) = 2
    /\ \A i \in 1..2 : Chain(err)[i].type # "h2::Error"
    /\ h2_reason(err) = INTERNAL_ERROR

\* The Parse entry the conversion layer is to give each raw failure.
ParseEntry(r) ==
    CASE r \in {"httparse::Error::HeaderName", "httparse::Error::HeaderValue",
                "httparse::Error::NewLine", "httparse::Error::Token"} ->
             <<"Header", "Token">>
      [] r = "httparse::Error::TooManyHeaders" -> <<"TooLarge">>
      [] r \in {"httparse::Error::Status", "InvalidStatusCode"} -> <<"Status">>
      [] r = "httparse::Error::Version" -> <<"Version">>
      [] r = "InvalidMethod" -> <<"Method">>
      [] r \in {"InvalidUri", "InvalidUriParts"} -> <<"Uri">>

\* C6: each raw failure converts to the one Parse entry of the table; the
\* Error made of TooManyHeaders is the Error new_too_large() makes, and
\* is_parse_too_large holds of it.
C6_ConversionTable ==
    raw # "none" =>
        /\ arg.parse = ParseEntry(raw)
        /\ err.kind = <<"Parse">> \o ParseEntry(raw)
        /\ err.cause = None
        /\ raw = "httparse::Error::TooManyHeaders" =>
               (err = new_too_large /\ is_parse_too_large(err))

\* TooManyHeaders was converted.
C6_Witness ==
    /\ raw = "httparse::Error::TooManyHeaders"
    /\ err.kind = <<"Parse", "TooLarge">>
    /\ is_parse_too_large(err)

\* C7: the Display text is non-empty for every Kind of the build, and that
\* of an Error is the text of the causeless Error of its Kind: the cause
\* chain adds nothing to it.
C7_DisplayOfKindAlone ==
    /\ \A k \in Kind(features) : Display(new(k)) # ""
    /\ made # "none" =>
           /\ err.kind \in Kind(features)
           /\ Display(err) # ""
           /\ Display(err) = Display(new(err.kind))

\* An Error with a chain of three links was displayed like a causeless one.
C7_Witness ==
    /\ made = "new_body"
    /\ Len(Chain(err)) = 3
    /\ Display(err) = "error reading a body from connection"

\* The Debug text of a value used as a cause.
Debug_Cause(c) ==
    CASE c.type = "Error" -> finish(Debug(c))
      [] c.type = "TimedOut" -> "TimedOut"
      [] OTHER -> c.type \o " { .. }"

\* C8: Debug builds the tuple named hyper::Error whose first field is the
\* Debug of the Kind and whose second, present iff the Error has a cause, is
\* the Debug of the immediate cause.
C8_DebugTuple ==
    made # "none" =>
        LET t == Debug(err) IN
        /\ t.name = "hyper::Error"
        /\ Len(t.fields) = (IF err.cause = None THEN 1 ELSE 2)
        /\ t.fields[1] = Debug_Kind(err.kind)
        /\ err.cause # None => t.fields[2] = Debug_Cause(err.cause)

\* The Debug of an Error whose cause is a causeless nested Error.
C8_Witness ==
    /\ made = "new_user_service"
    /\ arg = new(<<"Parse", "Header", "Token">>)
    /\ finish(Debug(err))
         = "hyper::Error(User(Service), hyper::Error(Parse(Header(Token))))"

Types == {"Error", "TimedOut", "h2::Error", "io::Error", "Other"}

\* The places of the links of type T in a chain.
Places(ch, T) == {i \in 1..Len(ch) : ch[i].type = T}

\* C9: find_source<T> returns the first link of type T below E (never E
\* itself), and none exactly when the chain holds no link of type T.
C9_FirstLinkOfType ==
    made # "none" =>
        \A T \in Types :
            LET ch == Chain(err)
                at == Places(ch, T)
            IN  IF at = {} THEN find_source(err, T) = None
                ELSE \E i \in at :
                        /\ \A j \in at : i <= j
                        /\ find_source(err, T) = ch[i]

\* Two nested Errors in the chain: the first is returned, not E and not
\* the second; and a TimedOut behind an io::Error is found.
C9_Witness ==
    /\ made # "none"
    /\ Places(Chain(err), "Error") = {1, 2}
    /\ find_source(err, "Error") = err.cause
    /\ find_source(err, "Error") # Chain(err)[2]
    /\ Places(Chain(err), "TimedOut") = {3}
    /\ find_source(err, "TimedOut") = TimedOut

\* C11: new_h2 re-tags in one case only. Given an h2::Error that is an I/O
\* failure it returns an Error of Kind Io whose immediate cause is the
\* io::Error taken out of it, the h2::Error being nowhere in the chain;
\* given any other h2::Error it returns an Error of Kind Http2 whose
\* immediate cause is that h2::Error. Neither branch panics.
C11_NewH2Reclassifies ==
    made = "new_h2" =>
        /\ err # Panic
        /\ IF is_io(arg)
           THEN /\ err.kind = <<"Io">>
                /\ err.cause = arg.io
                /\ err.cause.type = "io::Error"
                /\ \A i \in 1..Len(Chain(err)) :
                       Chain(err)[i].type # "h2::Error"
           ELSE /\ err.kind = <<"Http2">>
                /\ err.cause = arg

\* new_h2 was given an h2::Error holding an io::Error and re-tagged it.
C11_Witness ==
    /\ made = "new_h2"
    /\ arg = H2Error(NoReason, IoError(TimedOut), None)
    /\ err = new_io(IoError(TimedOut))

\* new_h2 was given an h2::Error that is no I/O failure and wrapped it.
C11_WitnessWrapped ==
    /\ made = "new_h2"
    /\ arg = H2Error(NoReason, None, None)
    /\ err.kind = <<"Http2">>
    /\ err.cause = arg

\* The places of the h2::Errors of a chain that carry a reason.
ReasonPlaces(ch) ==
    {i \in 1..Len(ch) : ch[i].type = "h2::Error" /\ ch[i].reason # NoReason}

C12_FirstH2Decides ==
    ("http2" \in features /\ made # "none") =>
        LET ch == Chain(err)
            at == Places(ch, "h2::Error")
        IN  IF at = {} THEN h2_reason(err) = INTERNAL_ERROR
            ELSE \E i \in at :
                    /\ \A j \in at : i <= j
                    /\ h2_reason(err) =
                           (IF ch[i].reason = NoReason THEN INTERNAL_ERROR
                            ELSE ch[i].reason)

====
